---- MODULE Spec2Model ----
(***************************************************************************)
(* A model of contrib/jackc/pgx.v5: the traced pool facade                 *)
(* (LooselyTracedPool), the traced transaction facade (tracedTx), the      *)
(* comment injector (injectComments) and the span emitter (tryTrace).      *)
(*                                                                         *)
(* SQL texts, tag values and errors are strings; injected comments are     *)
(* built by string concatenation, so that a rewritten text differs from    *)
(* the text it was made from.                                              *)
(***************************************************************************)
EXTENDS Integers, Sequences, FiniteSets, TLC

VARIABLES
    pool,     \* the LooselyTracedPool: its traceParams (cfg, meta)
    txs,      \* the tracedTx facades handed out by BeginTx, in order
    taskOn,   \* runtime/trace.IsEnabled()
    now,      \* the clock read by time.Now()
    nextID,   \* the tracer's span id generator
    spans,    \* the spans finished so far, in finishing order
    calls,    \* one record per completed facade call, in order
    inflight  \* per goroutine: the locals of the facade call it is inside

vars == <<pool, txs, taskOn, now, nextID, spans, calls, inflight>>

-----------------------------------------------------------------------------
(* Bounds of the model *)

MaxCalls == 2

MaxE2ECalls == 3

\* Goroutines calling the facades at the same time, and the calls they make
NumGoroutines == 2

MaxConcCalls == 3

MaxTagCalls == 2

-----------------------------------------------------------------------------
(* QueryType, pool.go *)

QueryTypeConnect == "Connect"
QueryTypeQuery == "Query"
QueryTypePing == "Ping"
QueryTypePrepare == "Prepare"
QueryTypeExec == "Exec"
QueryTypeBegin == "Begin"
QueryTypeClose == "Close"
QueryTypeCommit == "Commit"
QueryTypeRollback == "Rollback"
QueryTypeCopyFrom == "CopyFrom"

keyDBMTraceInjected == "_dd.dbm_trace_injected"

(* tracer.DBMPropagationMode *)
DBMPropagationModeDisabled == "disabled"
DBMPropagationModeService == "service"
DBMPropagationModeFull == "full"

Modes == {DBMPropagationModeDisabled, DBMPropagationModeService, DBMPropagationModeFull}

(* Errors the underlying client may return.  Nil is Go's nil error. *)
Nil == "nil"
ErrNoRows == "no rows in result set"
ErrSkip == "driver: skip fast-path; continue as if unimplemented"
Errors == {Nil, ErrNoRows, ErrSkip}

-----------------------------------------------------------------------------
(* Tag maps: functions from a finite set of string keys to strings *)

EmptyMap == [k \in {} |-> ""]

\* m with key k set to v (Go: m[k] = v)
SetKey(m, k, v) == [x \in DOMAIN m \cup {k} |-> IF x = k THEN v ELSE m[x]]

\* base overwritten by every entry of over (Go: for k, v := range over { base[k] = v })
Merge(base, over) ==
    [x \in DOMAIN base \cup DOMAIN over |-> IF x \in DOMAIN over THEN over[x] ELSE base[x]]

-----------------------------------------------------------------------------
(* context.Context: the ambient span, the tags attached by WithSpanTags,   *)
(* and the mark left by internal.WithExecutionTraced                       *)

NoSpanContext == [ok |-> FALSE, traceID |-> 0, spanID |-> 0, priority |-> 0]

Background == [span |-> NoSpanContext, tags |-> [ok |-> FALSE, m |-> EmptyMap], execTraced |-> FALSE]

\* tracer.ContextWithSpan
ContextWithSpan(ctx, sc) == [ctx EXCEPT !.span = sc]

\* tracer.SpanFromContext: the ambient span and whether there is one
SpanFromContext(ctx) == ctx.span

\* WithSpanTags, pool.go
WithSpanTags(ctx, tags) == [ctx EXCEPT !.tags = [ok |-> TRUE, m |-> tags]]

\* internal.WithExecutionTraced
WithExecutionTraced(ctx) == [ctx EXCEPT !.execTraced = TRUE]

-----------------------------------------------------------------------------
(* tracer.SQLCommentCarrier *)

\* The traceparent value of a full-mode comment
encodeTraceParent(traceID, spanID, sampled) ==
    "00-" \o ToString(traceID) \o "-" \o ToString(spanID) \o "-0" \o ToString(sampled)

\* The comment carrying only the service name
ServiceComment(svc) == "/*dddbs='" \o svc \o "'*/ "

\* The comment carrying the service name and the trace context
FullComment(svc, traceID, spanID, sampled) ==
    "/*dddbs='" \o svc \o "',traceparent='" \o encodeTraceParent(traceID, spanID, sampled) \o "'*/ "

\* carrier.Inject(spanCtx) on SQLCommentCarrier{Query, Mode, DBServiceName}:
\* id is the freshly generated span identifier.  Yields carrier.Query and
\* carrier.SpanID.
Inject(spanCtx, query, mode, svc, id) ==
    LET traceID == IF spanCtx.ok THEN spanCtx.traceID ELSE id
        sampled == IF spanCtx.ok /\ spanCtx.priority > 0 THEN 1 ELSE 0
    IN  [Query |-> CASE mode = DBMPropagationModeFull ->
                            FullComment(svc, traceID, id, sampled) \o query
                     [] mode = DBMPropagationModeService ->
                            ServiceComment(svc) \o query
                     [] OTHER -> query,
         SpanID |-> id]

-----------------------------------------------------------------------------
(* tracer.StartSpanOption and span creation *)

Tag(k, v) == [o |-> "tag", k |-> k, v |-> v, n |-> 0]
ServiceName(s) == [o |-> "service", k |-> "", v |-> s, n |-> 0]
SpanType(t) == [o |-> "type", k |-> "", v |-> t, n |-> 0]
StartTime(t) == [o |-> "start", k |-> "", v |-> "", n |-> t]
WithSpanID(id) == [o |-> "spanID", k |-> "", v |-> "", n |-> id]

\* What the options of a span say before any is applied
NoStartConfig == [tags |-> EmptyMap, service |-> "", type |-> "", start |-> 0, spanID |-> 0]

\* One option applied to the start configuration
ApplyOpt(sc, opt) ==
    CASE opt.o = "tag" -> [sc EXCEPT !.tags = SetKey(sc.tags, opt.k, opt.v)]
      [] opt.o = "service" -> [sc EXCEPT !.service = opt.v]
      [] opt.o = "type" -> [sc EXCEPT !.type = opt.v]
      [] opt.o = "start" -> [sc EXCEPT !.start = opt.n]
      [] opt.o = "spanID" -> [sc EXCEPT !.spanID = opt.n]
      [] OTHER -> sc

\* The options applied in order: a later option overrides an earlier one
RECURSIVE ApplyOpts(_, _)
ApplyOpts(sc, opts) ==
    IF opts = <<>> THEN sc ELSE ApplyOpts(ApplyOpt(sc, Head(opts)), Tail(opts))

\* tracer.StartSpanFromContext(ctx, name, opts...): gen is the identifier the
\* tracer generates when no option fixes one.  The new span is a child of
\* the ambient span when there is one and a root otherwise.
StartSpanFromContext(ctx, name, opts, gen) ==
    LET sc == ApplyOpts(NoStartConfig, opts)
        id == IF sc.spanID # 0 THEN sc.spanID ELSE gen
        parent == SpanFromContext(ctx)
    IN  [name |-> name,
         service |-> sc.service,
         type |-> sc.type,
         start |-> sc.start,
         finish |-> 0,
         finished |-> FALSE,
         spanID |-> id,
         traceID |-> IF parent.ok THEN parent.traceID ELSE id,
         parentID |-> IF parent.ok THEN parent.spanID ELSE 0,
         tags |-> sc.tags]

\* span.SetTag(k, v)
SetTag(span, k, v) == [span EXCEPT !.tags = SetKey(span.tags, k, v)]

\* span.SetTag(k, v) for every entry of m
SetTags(span, m) == [span EXCEPT !.tags = Merge(span.tags, m)]

\* span.Finish() at time t
Finish(span, t) == [span EXCEPT !.finish = t, !.finished = TRUE]

-----------------------------------------------------------------------------
(* config and traceParams, pool.go *)

\* tp.cfg.errCheck: isNil when no classifier is configured; otherwise the
\* classifier answers true exactly for the errors in reportable
NoErrCheck == [isNil |-> TRUE, reportable |-> {}]
ErrCheckOf(reportable) == [isNil |-> FALSE, reportable |-> reportable]

\* tp.cfg.errCheck(err)
errCheck(cfg, err) == err \in cfg.errCheck.reportable

\* math.IsNaN(tp.cfg.analyticsRate)
NaN == "NaN"
IsNaN(rate) == rate = NaN

\* The configurations a facade is constructed with
ErrChecks == {NoErrCheck, ErrCheckOf({ErrSkip})}

IgnoreSets ==
    { {},
      {QueryTypeBegin, QueryTypeExec, QueryTypeCommit},
      {QueryTypePrepare, QueryTypeQuery, QueryTypeCopyFrom, QueryTypeRollback} }

Configs ==
    [serviceName : {"postgres.db"},
     spanName : {"pgx.query"},
     analyticsRate : {NaN},
     ignoreQueryTypes : IgnoreSets,
     childSpansOnly : BOOLEAN,
     errCheck : ErrChecks,
     tags : {EmptyMap},
     dbmPropagationMode : Modes]

\* traceParams{cfg: cfg} of NewWithConfig, pgx.go: meta is left nil
NewTraceParams(cfg) == [cfg |-> cfg, meta |-> EmptyMap]

-----------------------------------------------------------------------------
(* startTraceTask, tx.go *)

\* With the execution tracer off the context is returned as it is and the
\* end function does nothing; otherwise a task is opened.
startTraceTask(ctx, name, enabled) ==
    IF ~enabled
    THEN [ctx |-> ctx, task |-> FALSE]
    ELSE [ctx |-> WithExecutionTraced(ctx), task |-> TRUE]

-----------------------------------------------------------------------------
(* injectComments and withDBMTraceInjectedTag, pool.go *)

\* injectComments giving the carrier the service-only mode whatever mode
\* it was asked for
injectCommentsIgnoresMode(tp, ctx, query, mode, id) ==
    LET span == SpanFromContext(ctx)
        spanCtx == IF span.ok THEN span ELSE NoSpanContext
        carrier == Inject(spanCtx, query, DBMPropagationModeService, tp.cfg.serviceName, id)
    IN  [cquery |-> carrier.Query, spanID |-> carrier.SpanID]

\* The ambient span's context, if any, is handed to the carrier; the
\* carrier's query and span id are returned, whatever Inject reports.
injectComments(tp, ctx, query, mode, id) ==
    LET span == SpanFromContext(ctx)
        spanCtx == IF span.ok THEN span ELSE NoSpanContext
        carrier == Inject(spanCtx, query, mode, tp.cfg.serviceName, id)
    IN  [cquery |-> carrier.Query, spanID |-> carrier.SpanID]

withDBMTraceInjectedTag(mode) ==
    IF mode = DBMPropagationModeFull
    THEN <<Tag(keyDBMTraceInjected, "true")>>
    ELSE <<>>

-----------------------------------------------------------------------------
(* tryTrace, pool.go *)

\* One Tag option per entry of the map m (Go ranges over the map in an
\* unspecified order; the keys being distinct, the order does not matter)
RECURSIVE TagOpts(_)
TagOpts(m) ==
    IF DOMAIN m = {} THEN <<>>
    ELSE LET k == CHOOSE x \in DOMAIN m : TRUE
         IN  <<Tag(k, m[k])>> \o TagOpts([x \in DOMAIN m \ {k} |-> m[x]])

\* Suppressed without the look-up in the suppress set
SuppressedNoIgnore(tp, ctx, qtype) ==
    tp.cfg.childSpansOnly /\ ~SpanFromContext(ctx).ok

\* Suppressed without the child-spans-only test
SuppressedNoChildOnly(tp, ctx, qtype) ==
    qtype \in tp.cfg.ignoreQueryTypes

\* The suppression policy: the kind is in the suppress set, or only child
\* spans are wanted and the context has no span
Suppressed(tp, ctx, qtype) ==
    \/ qtype \in tp.cfg.ignoreQueryTypes
    \/ tp.cfg.childSpansOnly /\ ~SpanFromContext(ctx).ok

\* SpanOptions with the caller's options put after the static tags and the
\* analytics rate
SpanOptionsCallerLast(tp, startTime, spanOpts) ==
    LET opts0 == << ServiceName(tp.cfg.serviceName),
                    SpanType("sql"),
                    StartTime(startTime),
                    Tag("component", "pgx/v5"),
                    Tag("span.kind", "client"),
                    Tag("db.system", "postgres") >>
        opts1 == opts0 \o TagOpts(tp.cfg.tags)
        opts2 == IF ~IsNaN(tp.cfg.analyticsRate)
                 THEN opts1 \o <<Tag("_dd1.sr.eausr", tp.cfg.analyticsRate)>>
                 ELSE opts1
    IN  opts2 \o spanOpts

\* The options the span is started with: the caller's, then the fixed ones,
\* then the static tags, then the analytics rate if it is a number
SpanOptions(tp, startTime, spanOpts) ==
    LET opts0 == spanOpts \o
                 << ServiceName(tp.cfg.serviceName),
                    SpanType("sql"),
                    StartTime(startTime),
                    Tag("component", "pgx/v5"),
                    Tag("span.kind", "client"),
                    Tag("db.system", "postgres") >>
        opts1 == opts0 \o TagOpts(tp.cfg.tags)
    IN  IF ~IsNaN(tp.cfg.analyticsRate)
        THEN opts1 \o <<Tag("_dd1.sr.eausr", tp.cfg.analyticsRate)>>
        ELSE opts1

\* Resource without the fall-back to the kind
ResourceAlwaysQuery(qtype, query) == query

\* The resource of the span: the SQL text, or the kind when there is none
Resource(qtype, query) == IF query # "" THEN query ELSE qtype

\* ErrorReported without the classifier
ErrorReportedAlways(tp, err) == err # Nil

\* Whether err is reported on the span
ErrorReported(tp, err) ==
    err # Nil /\ (tp.cfg.errCheck.isNil \/ errCheck(tp.cfg, err))

\* tryTrace setting the per-facade metadata after the context's tags
tryTraceMetaLast(tp, ctx, qtype, query, startTime, err, spanOpts, gen, t) ==
    IF Suppressed(tp, ctx, qtype) THEN <<>>
    ELSE
      LET opts == SpanOptions(tp, startTime, spanOpts)
          span0 == StartSpanFromContext(ctx, tp.cfg.spanName, opts, gen)
          span1 == SetTag(span0, "sql.query_type", qtype)
          span2 == SetTag(span1, "resource.name", Resource(qtype, query))
          span3 == IF ctx.tags.ok THEN SetTags(span2, ctx.tags.m) ELSE span2
          span4 == SetTags(span3, tp.meta)
          span5 == IF ErrorReported(tp, err) THEN SetTag(span4, "error", err) ELSE span4
      IN  <<Finish(span5, t)>>

\* tryTrace returning without finishing the span it created
tryTraceNoFinish(tp, ctx, qtype, query, startTime, err, spanOpts, gen, t) ==
    IF Suppressed(tp, ctx, qtype) THEN <<>>
    ELSE
      LET opts == SpanOptions(tp, startTime, spanOpts)
          span0 == StartSpanFromContext(ctx, tp.cfg.spanName, opts, gen)
          span1 == SetTag(span0, "sql.query_type", qtype)
          span2 == SetTag(span1, "resource.name", Resource(qtype, query))
          span3 == SetTags(span2, tp.meta)
          span4 == IF ctx.tags.ok THEN SetTags(span3, ctx.tags.m) ELSE span3
          span5 == IF ErrorReported(tp, err) THEN SetTag(span4, "error", err) ELSE span4
      IN  <<span5>>

\* The spans tryTrace creates and finishes: none or one.  gen is the
\* identifier the tracer would generate, t the time at which Finish runs.
tryTrace(tp, ctx, qtype, query, startTime, err, spanOpts, gen, t) ==
    IF Suppressed(tp, ctx, qtype) THEN <<>>
    ELSE
      LET opts == SpanOptions(tp, startTime, spanOpts)
          span0 == StartSpanFromContext(ctx, tp.cfg.spanName, opts, gen)
          span1 == SetTag(span0, "sql.query_type", qtype)
          span2 == SetTag(span1, "resource.name", Resource(qtype, query))
          span3 == SetTags(span2, tp.meta)
          span4 == IF ctx.tags.ok THEN SetTags(span3, ctx.tags.m) ELSE span3
          span5 == IF ErrorReported(tp, err) THEN SetTag(span4, "error", err) ELSE span4
      IN  <<Finish(span5, t)>>

-----------------------------------------------------------------------------
(* The record kept of a completed facade call *)

TaskStartEv(task) == IF task.task THEN <<"task.start">> ELSE <<>>
TaskEndEv(task) == IF task.task THEN <<"task.end">> ELSE <<>>
SpanEv(emitted) == IF emitted # <<>> THEN <<"span.start", "span.finish">> ELSE <<>>

\* op: the facade method; recv: the transaction facade called (0: the pool);
\* ctx, query: what the caller passed; injMode, injID, delegated: the mode
\* given to the injector, the identifier it generated and the SQL text given
\* to the underlying client ("" and 0 where the method has none); undErr:
\* the error of the underlying call; traceErr: the error given to tryTrace;
\* retErr: the error returned to the caller; retTx: the transaction facade returned (0: none); start,
\* returned: the clock at time.Now() and when the underlying call returned;
\* sfrom, sto: the spans of this call are spans[sfrom+1 .. sto].
MkCall(op, recv, qtype, ctx, query, injMode, injID, delegated, undErr, traceErr, retErr, retTx, start, returned, events) ==
    [op |-> op, recv |-> recv, qtype |-> qtype, ctx |-> ctx, query |-> query,
     injMode |-> injMode, injID |-> injID, delegated |-> delegated,
     undErr |-> undErr, traceErr |-> traceErr, retErr |-> retErr, retTx |-> retTx,
     start |-> start, returned |-> returned, events |-> events,
     sfrom |-> 0, sto |-> 0]

\* The effect of a completed call on the tracer, the clock and the log.
\* gen is the identifier the tracer would have generated for the span.
Complete(call, emitted, gen, t) ==
    /\ spans' = spans \o emitted
    /\ calls' = Append(calls, [call EXCEPT !.sfrom = Len(spans),
                                          !.sto = Len(spans) + Len(emitted)])
    /\ now' = t
    /\ nextID' = IF emitted # <<>> /\ emitted[1].spanID = gen THEN gen + 1 ELSE gen
    /\ UNCHANGED <<pool, taskOn, inflight>>

-----------------------------------------------------------------------------
(* LooselyTracedPool.BeginTx, pool.go *)

\* BeginTx wrapping the transaction with traceParams of its own, holding a
\* configuration that suppresses nothing, in place of the pool's
BeginTxOwnParams(ctx, err, d) ==
    LET tp == pool.traceParams
        start == now
        task == startTraceTask(ctx, QueryTypeBegin, taskOn)
        returned == now + d
        emitted == tryTrace(tp, task.ctx, QueryTypeBegin, "", start, err, <<>>,
                            nextID, returned)
        ok == err = Nil
        own == NewTraceParams([tp.cfg EXCEPT !.ignoreQueryTypes = {},
                                             !.childSpansOnly = FALSE])
        events == <<"time.Now">> \o TaskStartEv(task) \o <<"call">>
                  \o SpanEv(emitted) \o TaskEndEv(task)
    IN  /\ txs' = IF ok
                  THEN Append(txs, [Tx |-> Len(txs) + 1, traceParams |-> own])
                  ELSE txs
        /\ Complete(MkCall("BeginTx", 0, QueryTypeBegin, ctx, "", "", 0, "",
                           err, err, IF ok THEN Nil ELSE err,
                           IF ok THEN Len(txs) + 1 ELSE 0,
                           start, returned, events),
                    emitted, nextID, returned)

\* err is what tp.Pool.BeginTx returns after d ticks of the clock
BeginTx(ctx, err, d) ==
    LET tp == pool.traceParams
        start == now
        task == startTraceTask(ctx, QueryTypeBegin, taskOn)
        returned == now + d
        emitted == tryTrace(tp, task.ctx, QueryTypeBegin, "", start, err, <<>>,
                            nextID, returned)
        ok == err = Nil
        events == <<"time.Now">> \o TaskStartEv(task) \o <<"call">>
                  \o SpanEv(emitted) \o TaskEndEv(task)
    IN  /\ txs' = IF ok
                  THEN Append(txs, [Tx |-> Len(txs) + 1, traceParams |-> pool.traceParams])
                  ELSE txs
        /\ Complete(MkCall("BeginTx", 0, QueryTypeBegin, ctx, "", "", 0, "",
                           err, err, IF ok THEN Nil ELSE err,
                           IF ok THEN Len(txs) + 1 ELSE 0,
                           start, returned, events),
                    emitted, nextID, returned)

-----------------------------------------------------------------------------
(* tracedTx, tx.go *)

\* Commit returning nil whatever the underlying call returned
CommitDropsErr(t, ctx, err, d) ==
    LET tp == txs[t].traceParams
        task == startTraceTask(ctx, QueryTypeCommit, taskOn)
        start == now
        returned == now + d
        emitted == tryTrace(tp, task.ctx, QueryTypeCommit, "", start, err, <<>>,
                            nextID, returned)
        events == TaskStartEv(task) \o <<"time.Now", "call">>
                  \o SpanEv(emitted) \o TaskEndEv(task)
    IN  /\ UNCHANGED txs
        /\ Complete(MkCall("Commit", t, QueryTypeCommit, ctx, "", "", 0, "",
                           err, err, Nil, 0, start, returned, events),
                    emitted, nextID, returned)

\* Commit reading the clock after the underlying call instead of before
CommitStartsAfterCall(t, ctx, err, d) ==
    LET tp == txs[t].traceParams
        task == startTraceTask(ctx, QueryTypeCommit, taskOn)
        start == now + d
        returned == now + d
        emitted == tryTrace(tp, task.ctx, QueryTypeCommit, "", start, err, <<>>,
                            nextID, returned)
        events == TaskStartEv(task) \o <<"call", "time.Now">>
                  \o SpanEv(emitted) \o TaskEndEv(task)
    IN  /\ UNCHANGED txs
        /\ Complete(MkCall("Commit", t, QueryTypeCommit, ctx, "", "", 0, "",
                           err, err, err, 0, start, returned, events),
                    emitted, nextID, returned)

Commit(t, ctx, err, d) ==
    LET tp == txs[t].traceParams
        task == startTraceTask(ctx, QueryTypeCommit, taskOn)
        start == now
        returned == now + d
        emitted == tryTrace(tp, task.ctx, QueryTypeCommit, "", start, err, <<>>,
                            nextID, returned)
        events == TaskStartEv(task) \o <<"time.Now", "call">>
                  \o SpanEv(emitted) \o TaskEndEv(task)
    IN  /\ UNCHANGED txs
        /\ Complete(MkCall("Commit", t, QueryTypeCommit, ctx, "", "", 0, "",
                           err, err, err, 0, start, returned, events),
                    emitted, nextID, returned)

Rollback(t, ctx, err, d) ==
    LET tp == txs[t].traceParams
        task == startTraceTask(ctx, QueryTypeRollback, taskOn)
        start == now
        returned == now + d
        emitted == tryTrace(tp, task.ctx, QueryTypeRollback, "", start, err, <<>>,
                            nextID, returned)
        events == TaskStartEv(task) \o <<"time.Now", "call">>
                  \o SpanEv(emitted) \o TaskEndEv(task)
    IN  /\ UNCHANGED txs
        /\ Complete(MkCall("Rollback", t, QueryTypeRollback, ctx, "", "", 0, "",
                           err, err, err, 0, start, returned, events),
                    emitted, nextID, returned)

\* Prepare using the configured mode as it is
PrepareModeKeepsFull(cfg) == cfg.dbmPropagationMode

\* The mode Prepare gives to the injector
PrepareMode(cfg) ==
    IF cfg.dbmPropagationMode = DBMPropagationModeFull
    THEN DBMPropagationModeService
    ELSE cfg.dbmPropagationMode

Prepare(t, ctx, query, err, d) ==
    LET tp == txs[t].traceParams
        start == now
        mode == PrepareMode(tp.cfg)
        inj == injectComments(tp, ctx, query, mode, nextID)
        task == startTraceTask(ctx, QueryTypePrepare, taskOn)
        returned == now + d
        emitted == tryTrace(tp, task.ctx, QueryTypePrepare, query, start, err,
                            withDBMTraceInjectedTag(mode) \o <<WithSpanID(inj.spanID)>>,
                            nextID + 1, returned)
        events == <<"time.Now", "inject">> \o TaskStartEv(task) \o <<"call">>
                  \o SpanEv(emitted) \o TaskEndEv(task)
    IN  /\ UNCHANGED txs
        /\ Complete(MkCall("Prepare", t, QueryTypePrepare, ctx, query, mode, inj.spanID,
                           inj.cquery, err, err, err, 0, start, returned, events),
                    emitted, nextID + 1, returned)

\* Exec ending its task when the underlying call returns, before tryTrace
ExecEndsTaskBeforeTrace(t, ctx, query, err, d) ==
    LET tp == txs[t].traceParams
        start == now
        mode == tp.cfg.dbmPropagationMode
        inj == injectComments(tp, ctx, query, mode, nextID)
        task == startTraceTask(ctx, QueryTypeExec, taskOn)
        returned == now + d
        emitted == tryTrace(tp, task.ctx, QueryTypeExec, query, start, err,
                            withDBMTraceInjectedTag(mode) \o <<WithSpanID(inj.spanID)>>,
                            nextID + 1, returned)
        events == <<"time.Now", "inject">> \o TaskStartEv(task) \o <<"call">>
                  \o TaskEndEv(task) \o SpanEv(emitted)
    IN  /\ UNCHANGED txs
        /\ Complete(MkCall("Exec", t, QueryTypeExec, ctx, query, mode, inj.spanID,
                           inj.cquery, err, err, err, 0, start, returned, events),
                    emitted, nextID + 1, returned)

\* Exec starting its span without the identifier the injector returned
ExecNoSpanID(t, ctx, query, err, d) ==
    LET tp == txs[t].traceParams
        start == now
        mode == tp.cfg.dbmPropagationMode
        inj == injectComments(tp, ctx, query, mode, nextID)
        task == startTraceTask(ctx, QueryTypeExec, taskOn)
        returned == now + d
        emitted == tryTrace(tp, task.ctx, QueryTypeExec, query, start, err,
                            withDBMTraceInjectedTag(mode),
                            nextID + 1, returned)
        events == <<"time.Now", "inject">> \o TaskStartEv(task) \o <<"call">>
                  \o SpanEv(emitted) \o TaskEndEv(task)
    IN  /\ UNCHANGED txs
        /\ Complete(MkCall("Exec", t, QueryTypeExec, ctx, query, mode, inj.spanID,
                           inj.cquery, err, err, err, 0, start, returned, events),
                    emitted, nextID + 1, returned)

\* Exec delegating the caller's text when its span is suppressed
ExecSkipsInjectWhenSuppressed(t, ctx, query, err, d) ==
    LET tp == txs[t].traceParams
        start == now
        mode == tp.cfg.dbmPropagationMode
        inj == injectComments(tp, ctx, query, mode, nextID)
        task == startTraceTask(ctx, QueryTypeExec, taskOn)
        cquery == IF Suppressed(tp, task.ctx, QueryTypeExec) THEN query ELSE inj.cquery
        returned == now + d
        emitted == tryTrace(tp, task.ctx, QueryTypeExec, query, start, err,
                            withDBMTraceInjectedTag(mode) \o <<WithSpanID(inj.spanID)>>,
                            nextID + 1, returned)
        events == <<"time.Now", "inject">> \o TaskStartEv(task) \o <<"call">>
                  \o SpanEv(emitted) \o TaskEndEv(task)
    IN  /\ UNCHANGED txs
        /\ Complete(MkCall("Exec", t, QueryTypeExec, ctx, query, mode, inj.spanID,
                           cquery, err, err, err, 0, start, returned, events),
                    emitted, nextID + 1, returned)

Exec(t, ctx, query, err, d) ==
    LET tp == txs[t].traceParams
        start == now
        mode == tp.cfg.dbmPropagationMode
        inj == injectComments(tp, ctx, query, mode, nextID)
        task == startTraceTask(ctx, QueryTypeExec, taskOn)
        returned == now + d
        emitted == tryTrace(tp, task.ctx, QueryTypeExec, query, start, err,
                            withDBMTraceInjectedTag(mode) \o <<WithSpanID(inj.spanID)>>,
                            nextID + 1, returned)
        events == <<"time.Now", "inject">> \o TaskStartEv(task) \o <<"call">>
                  \o SpanEv(emitted) \o TaskEndEv(task)
    IN  /\ UNCHANGED txs
        /\ Complete(MkCall("Exec", t, QueryTypeExec, ctx, query, mode, inj.spanID,
                           inj.cquery, err, err, err, 0, start, returned, events),
                    emitted, nextID + 1, returned)

\* Query giving tryTrace the rewritten text
QueryTracesRewritten(t, ctx, query, err, d) ==
    LET tp == txs[t].traceParams
        start == now
        mode == tp.cfg.dbmPropagationMode
        inj == injectComments(tp, ctx, query, mode, nextID)
        task == startTraceTask(ctx, QueryTypeQuery, taskOn)
        returned == now + d
        emitted == tryTrace(tp, task.ctx, QueryTypeQuery, inj.cquery, start, err,
                            withDBMTraceInjectedTag(mode) \o <<WithSpanID(inj.spanID)>>,
                            nextID + 1, returned)
        events == <<"time.Now", "inject">> \o TaskStartEv(task) \o <<"call">>
                  \o SpanEv(emitted) \o TaskEndEv(task)
    IN  /\ UNCHANGED txs
        /\ Complete(MkCall("Query", t, QueryTypeQuery, ctx, query, mode, inj.spanID,
                           inj.cquery, err, err, err, 0, start, returned, events),
                    emitted, nextID + 1, returned)

Query(t, ctx, query, err, d) ==
    LET tp == txs[t].traceParams
        start == now
        mode == tp.cfg.dbmPropagationMode
        inj == injectComments(tp, ctx, query, mode, nextID)
        task == startTraceTask(ctx, QueryTypeQuery, taskOn)
        returned == now + d
        emitted == tryTrace(tp, task.ctx, QueryTypeQuery, query, start, err,
                            withDBMTraceInjectedTag(mode) \o <<WithSpanID(inj.spanID)>>,
                            nextID + 1, returned)
        events == <<"time.Now", "inject">> \o TaskStartEv(task) \o <<"call">>
                  \o SpanEv(emitted) \o TaskEndEv(task)
    IN  /\ UNCHANGED txs
        /\ Complete(MkCall("Query", t, QueryTypeQuery, ctx, query, mode, inj.spanID,
                           inj.cquery, err, err, err, 0, start, returned, events),
                    emitted, nextID + 1, returned)

\* QueryRow creating and finishing its span before the underlying call
QueryRowTracesFirst(t, ctx, query, rowErr, d) ==
    LET tp == txs[t].traceParams
        start == now
        mode == tp.cfg.dbmPropagationMode
        inj == injectComments(tp, ctx, query, mode, nextID)
        task == startTraceTask(ctx, QueryTypeQuery, taskOn)
        returned == now + d
        emitted == tryTrace(tp, task.ctx, QueryTypeQuery, query, start, Nil,
                            withDBMTraceInjectedTag(mode) \o <<WithSpanID(inj.spanID)>>,
                            nextID + 1, now)
        events == <<"time.Now", "inject">> \o TaskStartEv(task) \o SpanEv(emitted)
                  \o <<"call">> \o TaskEndEv(task)
    IN  /\ UNCHANGED txs
        /\ Complete(MkCall("QueryRow", t, QueryTypeQuery, ctx, query, mode, inj.spanID,
                           inj.cquery, rowErr, Nil, Nil, 0, start, returned, events),
                    emitted, nextID + 1, returned)

\* QueryRow handing the error of the row to tryTrace
QueryRowPassesErr(t, ctx, query, rowErr, d) ==
    LET tp == txs[t].traceParams
        start == now
        mode == tp.cfg.dbmPropagationMode
        inj == injectComments(tp, ctx, query, mode, nextID)
        task == startTraceTask(ctx, QueryTypeQuery, taskOn)
        returned == now + d
        emitted == tryTrace(tp, task.ctx, QueryTypeQuery, query, start, rowErr,
                            withDBMTraceInjectedTag(mode) \o <<WithSpanID(inj.spanID)>>,
                            nextID + 1, returned)
        events == <<"time.Now", "inject">> \o TaskStartEv(task) \o <<"call">>
                  \o SpanEv(emitted) \o TaskEndEv(task)
    IN  /\ UNCHANGED txs
        /\ Complete(MkCall("QueryRow", t, QueryTypeQuery, ctx, query, mode, inj.spanID,
                           inj.cquery, rowErr, rowErr, Nil, 0, start, returned, events),
                    emitted, nextID + 1, returned)

\* rowErr is the error the returned row will report when scanned; QueryRow
\* itself returns no error and hands nil to tryTrace
QueryRow(t, ctx, query, rowErr, d) ==
    LET tp == txs[t].traceParams
        start == now
        mode == tp.cfg.dbmPropagationMode
        inj == injectComments(tp, ctx, query, mode, nextID)
        task == startTraceTask(ctx, QueryTypeQuery, taskOn)
        returned == now + d
        emitted == tryTrace(tp, task.ctx, QueryTypeQuery, query, start, Nil,
                            withDBMTraceInjectedTag(mode) \o <<WithSpanID(inj.spanID)>>,
                            nextID + 1, returned)
        events == <<"time.Now", "inject">> \o TaskStartEv(task) \o <<"call">>
                  \o SpanEv(emitted) \o TaskEndEv(task)
    IN  /\ UNCHANGED txs
        /\ Complete(MkCall("QueryRow", t, QueryTypeQuery, ctx, query, mode, inj.spanID,
                           inj.cquery, rowErr, Nil, Nil, 0, start, returned, events),
                    emitted, nextID + 1, returned)

\* pgx.Identifier.Sanitize: the parts quoted and joined by dots
RECURSIVE Sanitize(_)
Sanitize(ident) ==
    IF ident = <<>> THEN ""
    ELSE "\"" \o Head(ident) \o "\""
         \o (IF Tail(ident) = <<>> THEN "" ELSE "." \o Sanitize(Tail(ident)))

CopyFrom(t, ctx, tableName, err, d) ==
    LET tp == txs[t].traceParams
        start == now
        task == startTraceTask(ctx, QueryTypeCopyFrom, taskOn)
        returned == now + d
        text == "copy_from " \o Sanitize(tableName)
        emitted == tryTrace(tp, task.ctx, QueryTypeCopyFrom, text, start, err, <<>>,
                            nextID, returned)
        events == <<"time.Now">> \o TaskStartEv(task) \o <<"call">>
                  \o SpanEv(emitted) \o TaskEndEv(task)
    IN  /\ UNCHANGED txs
        /\ Complete(MkCall("CopyFrom", t, QueryTypeCopyFrom, ctx, "", "", 0, "",
                           err, err, err, 0, start, returned, events),
                    emitted, nextID, returned)

-----------------------------------------------------------------------------
(* The callers' inputs *)

AmbientSpan == [ok |-> TRUE, traceID |-> 70, spanID |-> 71, priority |-> 1]

Contexts == {Background, ContextWithSpan(Background, AmbientSpan)}

Queries == {"", "INSERT ..."}

TableNames == {<<"public", "users">>}

\* How long an underlying call may take
Durations == {0, 1}

\* One tick of the clock per underlying call
OneTick == {1}

-----------------------------------------------------------------------------
(* The facades after NewWithConfig, and every call a caller can make *)

Goroutines == 1 .. NumGoroutines

\* The frame of a goroutine that is inside no facade call
Idle == [pc |-> "idle"]

Init ==
    /\ \E cfg \in Configs : pool = [traceParams |-> NewTraceParams(cfg)]
    /\ txs = <<>>
    /\ taskOn \in BOOLEAN
    /\ now = 0
    /\ nextID = 1
    /\ spans = <<>>
    /\ calls = <<>>
    /\ inflight = [g \in Goroutines |-> Idle]

More == Len(calls) < MaxCalls

DoBeginTx ==
    More /\ \E ctx \in Contexts, err \in Errors, d \in OneTick : BeginTx(ctx, err, d)

DoCommit ==
    More /\ \E t \in DOMAIN txs, ctx \in Contexts, err \in Errors, d \in OneTick :
                Commit(t, ctx, err, d)

DoRollback ==
    More /\ \E t \in DOMAIN txs, ctx \in Contexts, err \in Errors, d \in OneTick :
                Rollback(t, ctx, err, d)

DoPrepare ==
    More /\ \E t \in DOMAIN txs, ctx \in Contexts, q \in Queries, err \in Errors,
               d \in OneTick : Prepare(t, ctx, q, err, d)

DoExec ==
    More /\ \E t \in DOMAIN txs, ctx \in Contexts, q \in Queries, err \in Errors,
               d \in OneTick : Exec(t, ctx, q, err, d)

DoQuery ==
    More /\ \E t \in DOMAIN txs, ctx \in Contexts, q \in Queries, err \in Errors,
               d \in OneTick : Query(t, ctx, q, err, d)

DoQueryRow ==
    More /\ \E t \in DOMAIN txs, ctx \in Contexts, q \in Queries, rowErr \in Errors,
               d \in OneTick : QueryRow(t, ctx, q, rowErr, d)

DoCopyFrom ==
    More /\ \E t \in DOMAIN txs, ctx \in Contexts, tn \in TableNames, err \in Errors,
               d \in OneTick : CopyFrom(t, ctx, tn, err, d)

\* The end-to-end scenario: nothing in the suppress set, every underlying
\* call succeeding, BeginTx, Exec("INSERT ...") and Commit on the newest
\* transaction in any order
InitE2E ==
    /\ \E cfg \in Configs :
          /\ cfg.ignoreQueryTypes = {}
          /\ pool = [traceParams |-> NewTraceParams(cfg)]
    /\ txs = <<>>
    /\ taskOn \in BOOLEAN
    /\ now = 0
    /\ nextID = 1
    /\ spans = <<>>
    /\ calls = <<>>
    /\ inflight = [g \in Goroutines |-> Idle]

MoreE2E == Len(calls) < MaxE2ECalls

E2EBeginTx ==
    MoreE2E /\ \E ctx \in Contexts, d \in Durations : BeginTx(ctx, Nil, d)

E2EExec ==
    MoreE2E /\ txs # <<>>
            /\ \E ctx \in Contexts, d \in Durations :
                  Exec(Len(txs), ctx, "INSERT ...", Nil, d)

E2ECommit ==
    MoreE2E /\ txs # <<>>
            /\ \E ctx \in Contexts, d \in Durations : Commit(Len(txs), ctx, Nil, d)

NextE2E ==
    \/ E2EBeginTx
    \/ E2EExec
    \/ E2ECommit

SpecE2E == InitE2E /\ [][NextE2E]_vars

\* The tag sources: static tags and an analytics rate in the configuration,
\* metadata on the facade, tags attached to the caller's context.  The key
\* "env" can be in all three, "team" in the static tags and the metadata,
\* and the static tags can hold the key of the trace-injected marker.
StaticTagSets ==
    {EmptyMap, [k \in {"env", "team", keyDBMTraceInjected} |-> "static"]}

Metas == {EmptyMap, [k \in {"env", "team"} |-> "meta"]}

AmbientTagSets == {[k \in {"env"} |-> "ambient"]}

TagConfigs ==
    [serviceName : {"postgres.db"},
     spanName : {"pgx.query"},
     analyticsRate : {NaN, "0.5"},
     ignoreQueryTypes : {{}},
     childSpansOnly : {FALSE},
     errCheck : {NoErrCheck},
     tags : StaticTagSets,
     dbmPropagationMode : Modes]

TagContexts ==
    Contexts \cup {WithSpanTags(ctx, tags) : ctx \in Contexts, tags \in AmbientTagSets}

\* A pool facade whose traceParams hold a configuration with tags and,
\* possibly, metadata
InitTags ==
    /\ \E cfg \in TagConfigs, meta \in Metas :
          pool = [traceParams |-> [cfg |-> cfg, meta |-> meta]]
    /\ txs = <<>>
    /\ taskOn \in BOOLEAN
    /\ now = 0
    /\ nextID = 1
    /\ spans = <<>>
    /\ calls = <<>>
    /\ inflight = [g \in Goroutines |-> Idle]

MoreTags == Len(calls) < MaxTagCalls

TagsBeginTx ==
    MoreTags /\ \E ctx \in TagContexts, d \in OneTick : BeginTx(ctx, Nil, d)

TagsExec ==
    MoreTags /\ \E t \in DOMAIN txs, ctx \in TagContexts, d \in OneTick :
                    Exec(t, ctx, "INSERT ...", Nil, d)

TagsPrepare ==
    MoreTags /\ \E t \in DOMAIN txs, ctx \in TagContexts, d \in OneTick :
                    Prepare(t, ctx, "INSERT ...", Nil, d)

NextTags ==
    \/ TagsBeginTx
    \/ TagsExec
    \/ TagsPrepare

SpecTags == InitTags /\ [][NextTags]_vars

-----------------------------------------------------------------------------
(* Several goroutines inside BeginTx, Exec and Commit at the same time.  A
   call is split where it blocks: Enter* is the method up to the point where
   the underlying client call is made, Return* is that call returning and the
   rest of the method.  What the method holds across the underlying call is
   in its own variables (start, cquery, spanID, ctx), kept in
   inflight[g]; the facades are only read. *)

ConcConfigs ==
    {cfg \in Configs : /\ cfg.ignoreQueryTypes = {}
                       /\ ~cfg.childSpansOnly
                       /\ cfg.errCheck = NoErrCheck
                       /\ cfg.dbmPropagationMode # DBMPropagationModeService}

ConcQueries == {"INSERT ...", "SELECT 1"}

ConcErrors == {Nil, ErrNoRows}

\* The goroutine that makes the next call: goroutines differ in nothing but
\* their number, so it is the idle one with the lowest number
IsNextCaller(g) ==
    /\ inflight[g].pc = "idle"
    /\ \A h \in Goroutines : inflight[h].pc = "idle" => g <= h

InitConc ==
    /\ \E cfg \in ConcConfigs : pool = [traceParams |-> NewTraceParams(cfg)]
    /\ txs = <<>>
    /\ taskOn \in BOOLEAN
    /\ now = 0
    /\ nextID = 1
    /\ spans = <<>>
    /\ calls = <<>>
    /\ inflight = [g \in Goroutines |-> Idle]

\* The calls entered so far
Entered == Len(calls) + Cardinality({g \in Goroutines : inflight[g].pc = "called"})

MoreConc == Entered < MaxConcCalls

\* A method reading a variable of another call that is in progress
LocalsShared(g) == inflight[CHOOSE h \in Goroutines : inflight[h].pc = "called"]

\* The variables of the call goroutine g is inside
Locals(g) == inflight[g]

\* BeginTx up to tp.Pool.BeginTx
EnterBeginTx(g, ctx) ==
    /\ inflight[g].pc = "idle"
    /\ inflight' = [inflight EXCEPT ![g] =
            [pc |-> "called", op |-> "BeginTx", recv |-> 0, qtype |-> QueryTypeBegin,
             ctx |-> ctx, query |-> "", start |-> now, mode |-> "", cquery |-> "",
             spanID |-> 0, task |-> startTraceTask(ctx, QueryTypeBegin, taskOn)]]
    /\ now' = now + 1
    /\ UNCHANGED <<pool, txs, taskOn, nextID, spans, calls>>

\* Exec up to tx.Tx.Exec
EnterExec(g, t, ctx, query) ==
    LET tp == txs[t].traceParams
        mode == tp.cfg.dbmPropagationMode
        inj == injectComments(tp, ctx, query, mode, nextID)
    IN  /\ inflight[g].pc = "idle"
        /\ inflight' = [inflight EXCEPT ![g] =
                [pc |-> "called", op |-> "Exec", recv |-> t, qtype |-> QueryTypeExec,
                 ctx |-> ctx, query |-> query, start |-> now, mode |-> mode,
                 cquery |-> inj.cquery, spanID |-> inj.spanID,
                 task |-> startTraceTask(ctx, QueryTypeExec, taskOn)]]
        /\ now' = now + 1
        /\ nextID' = nextID + 1
        /\ UNCHANGED <<pool, txs, taskOn, spans, calls>>

\* Commit up to tx.Tx.Commit
EnterCommit(g, t, ctx) ==
    /\ inflight[g].pc = "idle"
    /\ inflight' = [inflight EXCEPT ![g] =
            [pc |-> "called", op |-> "Commit", recv |-> t, qtype |-> QueryTypeCommit,
             ctx |-> ctx, query |-> "", start |-> now, mode |-> "", cquery |-> "",
             spanID |-> 0, task |-> startTraceTask(ctx, QueryTypeCommit, taskOn)]]
    /\ now' = now + 1
    /\ UNCHANGED <<pool, txs, taskOn, nextID, spans, calls>>

\* The effect of goroutine g's call returning: what Complete does, and the
\* goroutine is inside no call any more
Returned(g, call, emitted) ==
    /\ spans' = spans \o emitted
    /\ calls' = Append(calls, [call EXCEPT !.sfrom = Len(spans),
                                          !.sto = Len(spans) + Len(emitted)])
    /\ now' = now + 1
    /\ nextID' = IF emitted # <<>> /\ emitted[1].spanID = nextID THEN nextID + 1 ELSE nextID
    /\ inflight' = [inflight EXCEPT ![g] = Idle]
    /\ UNCHANGED <<pool, taskOn>>

\* tp.Pool.BeginTx returning err, and BeginTx from there to its end
ReturnBeginTx(g, err) ==
    LET own == inflight[g]
        l == Locals(g)
        tp == pool.traceParams
        emitted == tryTrace(tp, l.task.ctx, QueryTypeBegin, "", l.start, err, <<>>,
                            nextID, now + 1)
        ok == err = Nil
        events == <<"time.Now">> \o TaskStartEv(own.task) \o <<"call">>
                  \o SpanEv(emitted) \o TaskEndEv(own.task)
    IN  /\ own.pc = "called" /\ own.op = "BeginTx"
        /\ txs' = IF ok
                  THEN Append(txs, [Tx |-> Len(txs) + 1, traceParams |-> pool.traceParams])
                  ELSE txs
        /\ Returned(g, MkCall("BeginTx", 0, QueryTypeBegin, own.ctx, "", "", 0, "",
                              err, err, IF ok THEN Nil ELSE err,
                              IF ok THEN Len(txs) + 1 ELSE 0,
                              own.start, now + 1, events),
                    emitted)

\* tx.Tx.Exec returning err, and Exec from there to its end
ReturnExec(g, err) ==
    LET own == inflight[g]
        l == Locals(g)
        tp == txs[own.recv].traceParams
        emitted == tryTrace(tp, l.task.ctx, QueryTypeExec, l.query, l.start, err,
                            withDBMTraceInjectedTag(l.mode) \o <<WithSpanID(l.spanID)>>,
                            nextID, now + 1)
        events == <<"time.Now", "inject">> \o TaskStartEv(own.task) \o <<"call">>
                  \o SpanEv(emitted) \o TaskEndEv(own.task)
    IN  /\ own.pc = "called" /\ own.op = "Exec"
        /\ UNCHANGED txs
        /\ Returned(g, MkCall("Exec", own.recv, QueryTypeExec, own.ctx, own.query,
                              own.mode, own.spanID, own.cquery, err, err, err, 0,
                              own.start, now + 1, events),
                    emitted)

\* tx.Tx.Commit returning err, and Commit from there to its end
ReturnCommit(g, err) ==
    LET own == inflight[g]
        l == Locals(g)
        tp == txs[own.recv].traceParams
        emitted == tryTrace(tp, l.task.ctx, QueryTypeCommit, "", l.start, err, <<>>,
                            nextID, now + 1)
        events == TaskStartEv(own.task) \o <<"time.Now", "call">>
                  \o SpanEv(emitted) \o TaskEndEv(own.task)
    IN  /\ own.pc = "called" /\ own.op = "Commit"
        /\ UNCHANGED txs
        /\ Returned(g, MkCall("Commit", own.recv, QueryTypeCommit, own.ctx, "", "", 0, "",
                              err, err, err, 0, own.start, now + 1, events),
                    emitted)

ConcEnterBeginTx ==
    MoreConc /\ \E g \in Goroutines : IsNextCaller(g) /\ EnterBeginTx(g, Background)

ConcEnterExec ==
    MoreConc /\ \E g \in Goroutines, t \in DOMAIN txs, ctx \in Contexts, q \in ConcQueries :
                    IsNextCaller(g) /\ EnterExec(g, t, ctx, q)

ConcEnterCommit ==
    MoreConc /\ \E g \in Goroutines, t \in DOMAIN txs :
                    IsNextCaller(g) /\ EnterCommit(g, t, Background)

ConcReturnBeginTx == \E g \in Goroutines, err \in ConcErrors : ReturnBeginTx(g, err)

ConcReturnExec == \E g \in Goroutines, err \in ConcErrors : ReturnExec(g, err)

ConcReturnCommit == \E g \in Goroutines, err \in ConcErrors : ReturnCommit(g, err)

NextConc ==
    \/ ConcEnterBeginTx
    \/ ConcEnterExec
    \/ ConcEnterCommit
    \/ ConcReturnBeginTx
    \/ ConcReturnExec
    \/ ConcReturnCommit

SpecConc == InitConc /\ [][NextConc]_vars

Next ==
    \/ DoBeginTx
    \/ DoCommit
    \/ DoRollback
    \/ DoPrepare
    \/ DoExec
    \/ DoQuery
    \/ DoQueryRow
    \/ DoCopyFrom

Spec == Init /\ [][Next]_vars

-----------------------------------------------------------------------------
(* What the claims speak about *)

\* The traceParams of the facade a call was made on
TpOf(c) == IF c.recv = 0 THEN pool.traceParams ELSE txs[c.recv].traceParams

\* The spans a call emitted
SpansOf(c) == SubSeq(spans, c.sfrom + 1, c.sto)

\* The facade methods that return an error
ErrOps == {"BeginTx", "Prepare", "Exec", "Query", "CopyFrom", "Commit", "Rollback"}

\* The facade methods that take SQL text
SQLOps == {"Prepare", "Exec", "Query", "QueryRow"}

\* Neither rule of the suppression policy applies to the call
PolicyLetsThrough(c) ==
    /\ c.qtype \notin TpOf(c).cfg.ignoreQueryTypes
    /\ ~TpOf(c).cfg.childSpansOnly \/ c.ctx.span.ok

HasErrorTag(s) == "error" \in DOMAIN s.tags

-----------------------------------------------------------------------------
\* C1: every facade method that returns an error returns exactly the error
\* the underlying client call returned, under every configuration.
C1_ErrorPassedThrough ==
    \A i \in DOMAIN calls :
        calls[i].op \in ErrOps => calls[i].retErr = calls[i].undErr

\* A failing Commit whose error the classifier rejects has returned it
C1_Witness ==
    \E i \in DOMAIN calls :
        /\ calls[i].op = "Commit"
        /\ calls[i].undErr = ErrNoRows
        /\ ~TpOf(calls[i]).cfg.errCheck.isNil
        /\ calls[i].retErr = ErrNoRows

\* C2: a call whose kind is in the suppress set produces no span, whether
\* the underlying call succeeds or fails, with or without an ambient span.
C2_SuppressedKindNoSpan ==
    \A i \in DOMAIN calls :
        calls[i].qtype \in TpOf(calls[i]).cfg.ignoreQueryTypes
            => SpansOf(calls[i]) = <<>>

\* A failing call of a suppressed kind, made inside a trace, left no span
C2_Witness ==
    \E i \in DOMAIN calls :
        /\ calls[i].qtype \in TpOf(calls[i]).cfg.ignoreQueryTypes
        /\ calls[i].undErr # Nil
        /\ calls[i].ctx.span.ok
        /\ ~TpOf(calls[i]).cfg.childSpansOnly
        /\ SpansOf(calls[i]) = <<>>

\* C3: with child-spans-only enabled and the kind not suppressed, a call
\* without an ambient span produces no span and a call with an ambient span
\* produces exactly one.
C3_ChildSpansOnly ==
    \A i \in DOMAIN calls :
        LET c == calls[i]
            tp == TpOf(c)
        IN  (tp.cfg.childSpansOnly /\ c.qtype \notin tp.cfg.ignoreQueryTypes)
                => Len(SpansOf(c)) = IF c.ctx.span.ok THEN 1 ELSE 0

\* Under child-spans-only a call outside a trace left no span and a later
\* call inside a trace left one
C3_Witness ==
    \E i, j \in DOMAIN calls :
        /\ TpOf(calls[i]).cfg.childSpansOnly
        /\ calls[i].qtype \notin TpOf(calls[i]).cfg.ignoreQueryTypes
        /\ calls[j].qtype \notin TpOf(calls[j]).cfg.ignoreQueryTypes
        /\ ~calls[i].ctx.span.ok /\ SpansOf(calls[i]) = <<>>
        /\ calls[j].ctx.span.ok /\ Len(SpansOf(calls[j])) = 1

\* C4: an emitted span carries the error tag exactly when the error given to
\* the emitter is non-nil and no classifier is configured or the classifier
\* accepts it; an error the classifier rejects leaves the span emitted,
\* untagged, and is still returned to the caller.
C4_ErrorTagIffReportable ==
    \A i \in DOMAIN calls :
        LET c == calls[i]
            cfg == TpOf(c).cfg
            rejected == c.undErr # Nil /\ ~cfg.errCheck.isNil
                        /\ c.undErr \notin cfg.errCheck.reportable
        IN  /\ \A k \in DOMAIN SpansOf(c) :
                 LET s == SpansOf(c)[k]
                 IN  /\ HasErrorTag(s) <=>
                            (c.traceErr # Nil /\
                             (cfg.errCheck.isNil \/ c.traceErr \in cfg.errCheck.reportable))
                     /\ HasErrorTag(s) => s.tags["error"] = c.traceErr
            /\ (rejected /\ c.op \in ErrOps /\ PolicyLetsThrough(c))
                 => /\ Len(SpansOf(c)) = 1
                    /\ ~HasErrorTag(SpansOf(c)[1])
                    /\ c.retErr = c.undErr

\* An Exec failed with an error the classifier rejects: one span, no tag
C4_Witness ==
    \E i \in DOMAIN calls :
        /\ calls[i].op = "Exec"
        /\ calls[i].undErr = ErrNoRows
        /\ ~TpOf(calls[i]).cfg.errCheck.isNil
        /\ Len(SpansOf(calls[i])) = 1
        /\ ~HasErrorTag(SpansOf(calls[i])[1])
        /\ calls[i].retErr = ErrNoRows

-----------------------------------------------------------------------------
(* Reading an injected comment back *)

\* The identifiers that can occur in a comment: the generated ones and the
\* ambient span's
KnownIDs == (1 .. nextID) \cup {AmbientSpan.traceID, AmbientSpan.spanID}

\* The span identifiers text embeds, text being query under a full-mode
\* comment of the service svc; the trace identifier of such a comment is
\* that of the ambient trace or, without one, the span identifier itself
EmbeddedSpanIDs(text, query, svc) ==
    {id \in KnownIDs :
        \E tr \in {id, AmbientSpan.traceID}, sm \in {0, 1} :
            text = FullComment(svc, tr, id, sm) \o query}

Resource_(s) == s.tags["resource.name"]

-----------------------------------------------------------------------------
\* C5: when the underlying call returns the driver's skip signal as its
\* error, the call produces no span (empty suppress set, child-spans-only
\* disabled), for every kind.
C5_SkipSignalNoSpan ==
    \A i \in DOMAIN calls :
        LET c == calls[i]
            cfg == TpOf(c).cfg
        IN  (c.op \in ErrOps /\ c.undErr = ErrSkip
             /\ cfg.ignoreQueryTypes = {} /\ ~cfg.childSpansOnly)
                => SpansOf(c) = <<>>

\* C6: for Exec, Query and QueryRow in full mode with an ambient span, the
\* span identifier embedded in the delegated SQL comment is the identifier
\* of the span emitted for that call, and of no span of another call.
C6_EmbeddedIDIsSpanID ==
    \A i \in DOMAIN calls :
        LET c == calls[i]
            cfg == TpOf(c).cfg
            emb == EmbeddedSpanIDs(c.delegated, c.query, cfg.serviceName)
        IN  (c.op \in {"Exec", "Query", "QueryRow"}
             /\ cfg.dbmPropagationMode = DBMPropagationModeFull /\ c.ctx.span.ok)
                => /\ Cardinality(emb) = 1
                   /\ \A k \in DOMAIN SpansOf(c) : SpansOf(c)[k].spanID \in emb
                   /\ \A j \in DOMAIN calls \ {i} :
                        \A k \in DOMAIN SpansOf(calls[j]) :
                            SpansOf(calls[j])[k].spanID \notin emb

\* A full-mode Exec inside a trace emitted the span whose identifier its
\* comment embeds, after another call had emitted a span too
C6_Witness ==
    \E i, j \in DOMAIN calls :
        /\ i # j
        /\ calls[i].op = "Exec"
        /\ TpOf(calls[i]).cfg.dbmPropagationMode = DBMPropagationModeFull
        /\ calls[i].ctx.span.ok
        /\ Len(SpansOf(calls[i])) = 1
        /\ Len(SpansOf(calls[j])) = 1
        /\ EmbeddedSpanIDs(calls[i].delegated, calls[i].query,
                           TpOf(calls[i]).cfg.serviceName) = {SpansOf(calls[i])[1].spanID}

\* C7 as stated: for every mode and every SQL-bearing method the resource
\* of the emitted span is the caller's SQL text.
C7_ResourceIsCallerText ==
    \A i \in DOMAIN calls :
        calls[i].op \in SQLOps =>
            \A k \in DOMAIN SpansOf(calls[i]) :
                Resource_(SpansOf(calls[i])[k]) = calls[i].query

\* C7 amended: the resource is the caller's SQL text when that text is not
\* empty and the name of the kind when it is; it is never the rewritten
\* text where rewriting changed the text.
C7_ResourceIsCallerTextOrKind ==
    \A i \in DOMAIN calls :
        LET c == calls[i]
        IN  c.op \in SQLOps =>
              \A k \in DOMAIN SpansOf(c) :
                  /\ Resource_(SpansOf(c)[k]) = IF c.query # "" THEN c.query ELSE c.qtype
                  /\ c.delegated # c.query => Resource_(SpansOf(c)[k]) # c.delegated

\* A Query whose text was rewritten emitted a span named by the text the
\* caller gave
C7_Witness ==
    \E i \in DOMAIN calls :
        /\ calls[i].op = "Query"
        /\ calls[i].query # ""
        /\ calls[i].delegated # calls[i].query
        /\ Len(SpansOf(calls[i])) = 1
        /\ Resource_(SpansOf(calls[i])[1]) = calls[i].query

\* C8: in mode disabled the SQL text delegated by Prepare, Exec, Query and
\* QueryRow is the caller's text, with or without an ambient span.
C8_DisabledDelegatesCallerText ==
    \A i \in DOMAIN calls :
        (calls[i].op \in SQLOps
         /\ TpOf(calls[i]).cfg.dbmPropagationMode = DBMPropagationModeDisabled)
            => calls[i].delegated = calls[i].query

\* With mode disabled, an Exec inside a trace delegated the caller's text
C8_Witness ==
    \E i \in DOMAIN calls :
        /\ calls[i].op = "Exec"
        /\ TpOf(calls[i]).cfg.dbmPropagationMode = DBMPropagationModeDisabled
        /\ calls[i].ctx.span.ok
        /\ calls[i].query # ""
        /\ calls[i].delegated = calls[i].query

\* C9: Prepare gives the injector the configured mode with full replaced by
\* service-only; the SQL it delegates carries no trace identifiers and its
\* span carries no trace-injected marker.
C9_PrepareNeverFull ==
    \A i \in DOMAIN calls :
        LET c == calls[i]
            cfg == TpOf(c).cfg
        IN  c.op = "Prepare" =>
              /\ c.injMode = IF cfg.dbmPropagationMode = DBMPropagationModeFull
                             THEN DBMPropagationModeService
                             ELSE cfg.dbmPropagationMode
              /\ EmbeddedSpanIDs(c.delegated, c.query, cfg.serviceName) = {}
              /\ c.delegated \in {c.query, ServiceComment(cfg.serviceName) \o c.query}
              /\ \A k \in DOMAIN SpansOf(c) :
                    keyDBMTraceInjected \notin DOMAIN SpansOf(c)[k].tags

\* With mode full, a Prepare inside a trace delegated a service-only comment
\* and emitted a span without the marker
C9_Witness ==
    \E i \in DOMAIN calls :
        /\ calls[i].op = "Prepare"
        /\ TpOf(calls[i]).cfg.dbmPropagationMode = DBMPropagationModeFull
        /\ calls[i].ctx.span.ok
        /\ calls[i].injMode = DBMPropagationModeService
        /\ calls[i].delegated = ServiceComment(TpOf(calls[i]).cfg.serviceName) \o calls[i].query
        /\ Len(SpansOf(calls[i])) = 1
        /\ keyDBMTraceInjected \notin DOMAIN SpansOf(calls[i])[1].tags

-----------------------------------------------------------------------------
(* The end-to-end sequence *)

Kind_(s) == s.tags["sql.query_type"]

\* Calls i, i+1, i+2 are a successful BeginTx, Exec("INSERT ...") on the
\* transaction it returned, and Commit of that transaction, none suppressed
IsBeginExecCommit(i) ==
    /\ i + 2 \in DOMAIN calls
    /\ calls[i].op = "BeginTx" /\ calls[i].retErr = Nil
    /\ calls[i + 1].op = "Exec" /\ calls[i + 1].recv = calls[i].retTx
    /\ calls[i + 1].query = "INSERT ..." /\ calls[i + 1].retErr = Nil
    /\ calls[i + 2].op = "Commit" /\ calls[i + 2].recv = calls[i].retTx
    /\ calls[i + 2].retErr = Nil
    /\ \A j \in i .. i + 2 : PolicyLetsThrough(calls[j])

\* The spans of calls i .. i+2
SpansOfThree(i) == SubSeq(spans, calls[i].sfrom + 1, calls[i + 2].sto)

\* Three spans, of kinds Begin, Exec, Commit in this order, with start times
\* that never decrease
ThreeSpansInOrder(ss) ==
    /\ Len(ss) = 3
    /\ <<Kind_(ss[1]), Kind_(ss[2]), Kind_(ss[3])>>
          = <<QueryTypeBegin, QueryTypeExec, QueryTypeCommit>>
    /\ ss[1].start <= ss[2].start /\ ss[2].start <= ss[3].start

\* C10 as stated: BeginTx, Exec("INSERT ..."), Commit produce exactly three
\* spans, Begin, Exec, Commit in order, with the resources "INSERT ...",
\* "INSERT ...", "Commit" and non-decreasing start times.
C10_E2EResourcesAsStated ==
    \A i \in DOMAIN calls :
        IsBeginExecCommit(i) =>
            LET ss == SpansOfThree(i)
            IN  /\ ThreeSpansInOrder(ss)
                /\ <<Resource_(ss[1]), Resource_(ss[2]), Resource_(ss[3])>>
                      = <<"INSERT ...", "INSERT ...", "Commit">>

\* C10 amended: the same, the resources being "Begin", "INSERT ...",
\* "Commit": the Begin span has no SQL text and is named by its kind.
C10_E2EThreeSpans ==
    \A i \in DOMAIN calls :
        IsBeginExecCommit(i) =>
            LET ss == SpansOfThree(i)
            IN  /\ ThreeSpansInOrder(ss)
                /\ <<Resource_(ss[1]), Resource_(ss[2]), Resource_(ss[3])>>
                      = <<"Begin", "INSERT ...", "Commit">>

\* The sequence has run and left its three spans, the underlying calls
\* having taken time
C10_Witness ==
    /\ IsBeginExecCommit(1)
    /\ Len(spans) = 3
    /\ spans[1].start < spans[2].start /\ spans[2].start < spans[3].start

-----------------------------------------------------------------------------
(* Tag precedence *)

\* The tags attached to the context of a call, none attached being no tags
AmbientTags(c) == IF c.ctx.tags.ok THEN c.ctx.tags.m ELSE EmptyMap

\* The keys that two or more of the three tag sources of a call hold
SharedKeys(c) ==
    LET st == DOMAIN TpOf(c).cfg.tags
        me == DOMAIN TpOf(c).meta
        am == DOMAIN AmbientTags(c)
    IN  (st \cap me) \cup (st \cap am) \cup (me \cap am)

\* C11: for a key held by more than one of the static tags, the facade's
\* metadata and the context's tags, the span has the context's value if the
\* context holds the key, else the metadata's value if the metadata holds
\* it, else the static value.
C11_TagPrecedence ==
    \A i \in DOMAIN calls :
        LET c == calls[i]
            tp == TpOf(c)
        IN  \A n \in DOMAIN SpansOf(c) : \A k \in SharedKeys(c) :
                SpansOf(c)[n].tags[k] =
                    IF k \in DOMAIN AmbientTags(c) THEN AmbientTags(c)[k]
                    ELSE IF k \in DOMAIN tp.meta THEN tp.meta[k]
                    ELSE tp.cfg.tags[k]

\* A span of a call whose three sources all hold "env" and whose static
\* tags and metadata hold "team": it has the context's "env" and the
\* metadata's "team"
C11_Witness ==
    \E i \in DOMAIN calls :
        LET c == calls[i]
        IN  /\ "env" \in DOMAIN TpOf(c).cfg.tags \cap DOMAIN TpOf(c).meta
            /\ "env" \in DOMAIN AmbientTags(c)
            /\ "team" \in (DOMAIN TpOf(c).cfg.tags \cap DOMAIN TpOf(c).meta)
                              \ DOMAIN AmbientTags(c)
            /\ Len(SpansOf(c)) = 1
            /\ SpansOf(c)[1].tags["env"] = "ambient"
            /\ SpansOf(c)[1].tags["team"] = "meta"

-----------------------------------------------------------------------------
(* The order of the steps of a call *)

\* The places of the event e in the events of a call
Places(c, e) == {n \in DOMAIN c.events : c.events[n] = e}

\* The one place of e, e occurring once
Place(c, e) == CHOOSE n \in Places(c, e) : TRUE

Once(c, e) == Cardinality(Places(c, e)) = 1

\* A diagnostic task was opened for the call
HasTask(c) == Places(c, "task.start") # {}

\* C12 as stated: where a diagnostic task was opened, its end comes no
\* later than the emission of the span of the same call.
C12_TaskEndsBeforeSpan ==
    \A i \in DOMAIN calls :
        LET c == calls[i]
        IN  (HasTask(c) /\ SpansOf(c) # <<>>)
                => /\ Once(c, "task.end")
                   /\ Place(c, "task.end") < Place(c, "span.start")

\* C12 amended: where a diagnostic task was opened, it is opened before the
\* underlying call and ended once, as the last step of the facade method:
\* after the underlying call has returned and after the span of the same
\* call, if any, was created and finished.
C12_TaskEndsAfterSpan ==
    \A i \in DOMAIN calls :
        LET c == calls[i]
        IN  HasTask(c) =>
              /\ Once(c, "task.start") /\ Once(c, "task.end") /\ Once(c, "call")
              /\ Place(c, "task.start") < Place(c, "call")
              /\ Place(c, "call") < Place(c, "task.end")
              /\ Place(c, "task.end") = Len(c.events)
              /\ SpansOf(c) # <<>> =>
                    /\ Once(c, "span.finish")
                    /\ Place(c, "span.finish") < Place(c, "task.end")

\* An Exec with a task and a span has ended the task after the span
C12_Witness ==
    \E i \in DOMAIN calls :
        /\ calls[i].op = "Exec"
        /\ HasTask(calls[i])
        /\ Len(SpansOf(calls[i])) = 1
        /\ Place(calls[i], "span.finish") < Place(calls[i], "task.end")

-----------------------------------------------------------------------------
(* BeginTx *)

\* What C13 says of a BeginTx call but for the error tag: one Begin span
\* named "Begin" unless the policy suppresses it; on failure no transaction
\* and the underlying error; on success a transaction facade holding the
\* pool's traceParams
BeginTxOutcome(c) ==
    /\ Len(SpansOf(c)) = IF PolicyLetsThrough(c) THEN 1 ELSE 0
    /\ \A n \in DOMAIN SpansOf(c) :
          /\ Kind_(SpansOf(c)[n]) = QueryTypeBegin
          /\ Resource_(SpansOf(c)[n]) = "Begin"
    /\ c.undErr # Nil => c.retTx = 0 /\ c.retErr = c.undErr
    /\ c.undErr = Nil =>
          /\ c.retErr = Nil
          /\ c.retTx \in DOMAIN txs
          /\ txs[c.retTx].traceParams = pool.traceParams

\* C13 as stated: BeginTx emits one Begin span with resource "Begin" on
\* both outcomes unless suppressed; on failure it returns no transaction and
\* the underlying error, and the span is tagged with that error; on success
\* the transaction facade shares the pool's configuration and metadata.
C13_BeginTxSpanTaggedOnFailure ==
    \A i \in DOMAIN calls :
        LET c == calls[i]
        IN  c.op = "BeginTx" =>
              /\ BeginTxOutcome(c)
              /\ c.undErr # Nil =>
                    \A n \in DOMAIN SpansOf(c) :
                        /\ HasErrorTag(SpansOf(c)[n])
                        /\ SpansOf(c)[n].tags["error"] = c.undErr

\* C13 amended: the same, the span of a failed BeginTx being tagged with the
\* error when no classifier is configured or the classifier accepts the
\* error, and left without an error tag when the classifier rejects it.
C13_BeginTxSpan ==
    \A i \in DOMAIN calls :
        LET c == calls[i]
            cfg == TpOf(c).cfg
        IN  c.op = "BeginTx" =>
              /\ BeginTxOutcome(c)
              /\ c.undErr # Nil =>
                    \A n \in DOMAIN SpansOf(c) :
                        IF cfg.errCheck.isNil \/ c.undErr \in cfg.errCheck.reportable
                        THEN /\ HasErrorTag(SpansOf(c)[n])
                             /\ SpansOf(c)[n].tags["error"] = c.undErr
                        ELSE ~HasErrorTag(SpansOf(c)[n])
              /\ c.undErr = Nil => \A n \in DOMAIN SpansOf(c) : ~HasErrorTag(SpansOf(c)[n])

\* A BeginTx failed and left a span tagged with its error, and a BeginTx
\* succeeded on a pool that suppresses some kind and returned a transaction
\* holding the pool's traceParams
C13_Witness ==
    /\ \E i \in DOMAIN calls :
          /\ calls[i].op = "BeginTx" /\ calls[i].undErr # Nil /\ calls[i].retTx = 0
          /\ Len(SpansOf(calls[i])) = 1
          /\ HasErrorTag(SpansOf(calls[i])[1])
    /\ \E i \in DOMAIN calls :
          /\ calls[i].op = "BeginTx" /\ calls[i].undErr = Nil
          /\ pool.traceParams.cfg.ignoreQueryTypes # {}
          /\ Len(SpansOf(calls[i])) = 1
          /\ txs[calls[i].retTx].traceParams = pool.traceParams

-----------------------------------------------------------------------------
(* The order of the span's options *)

\* The call is an Exec, Query or QueryRow in full mode whose span can get
\* the value of the trace-injected marker only from the caller's option or
\* from the static tags, which hold the marker's key
MarkerCollides(c) ==
    /\ c.op \in {"Exec", "Query", "QueryRow"}
    /\ c.injMode = DBMPropagationModeFull
    /\ keyDBMTraceInjected \in DOMAIN TpOf(c).cfg.tags
    /\ keyDBMTraceInjected \notin DOMAIN TpOf(c).meta \cup DOMAIN AmbientTags(c)

\* C14 as stated: when a static tag and an option supplied by the caller
\* (the trace-injected marker) have the same key, the span has the caller's
\* value.
C14_CallerOptionWins ==
    \A i \in DOMAIN calls :
        MarkerCollides(calls[i]) =>
            \A n \in DOMAIN SpansOf(calls[i]) :
                SpansOf(calls[i])[n].tags[keyDBMTraceInjected] = "true"

\* C14 amended: the span has the static tag's value, the options being
\* merged in the order caller's options, fixed options, static tags,
\* analytics rate, then metadata and context tags; the caller's marker
\* shows only where no later source holds its key.
C14_StaticTagWins ==
    \A i \in DOMAIN calls :
        LET c == calls[i]
            cfg == TpOf(c).cfg
        IN  \A n \in DOMAIN SpansOf(c) :
              LET s == SpansOf(c)[n]
              IN  /\ MarkerCollides(c) =>
                        s.tags[keyDBMTraceInjected] = cfg.tags[keyDBMTraceInjected]
                  /\ (c.op \in {"Exec", "Query", "QueryRow"}
                      /\ c.injMode = DBMPropagationModeFull
                      /\ keyDBMTraceInjected \notin DOMAIN cfg.tags \cup DOMAIN TpOf(c).meta
                                                      \cup DOMAIN AmbientTags(c))
                        => s.tags[keyDBMTraceInjected] = "true"
                  /\ ~IsNaN(cfg.analyticsRate) => s.tags["_dd1.sr.eausr"] = cfg.analyticsRate

\* A full-mode Exec on a facade whose static tags hold the marker's key has
\* emitted a span with the static value
C14_Witness ==
    \E i \in DOMAIN calls :
        /\ calls[i].op = "Exec"
        /\ MarkerCollides(calls[i])
        /\ Len(SpansOf(calls[i])) = 1
        /\ SpansOf(calls[i])[1].tags[keyDBMTraceInjected] = "static"

-----------------------------------------------------------------------------
\* C15: in every SQL-bearing call the span identifier is generated and the
\* SQL rewritten before the underlying call, which is invoked once, with
\* the rewritten text; no span is created for the call before the
\* underlying call has returned.
C15_TwoPhases ==
    \A i \in DOMAIN calls :
        LET c == calls[i]
            cfg == TpOf(c).cfg
        IN  c.op \in SQLOps =>
              /\ Once(c, "inject") /\ Once(c, "call")
              /\ Place(c, "inject") < Place(c, "call")
              /\ c.injID # 0
              /\ c.delegated = Inject(c.ctx.span, c.query, c.injMode,
                                      cfg.serviceName, c.injID).Query
              /\ \A n \in DOMAIN c.events :
                    c.events[n] \in {"span.start", "span.finish"} => Place(c, "call") < n
              /\ \A n \in DOMAIN SpansOf(c) :
                    /\ SpansOf(c)[n].spanID = c.injID
                    /\ c.returned <= SpansOf(c)[n].finish

\* A full-mode Query has delegated the text rewritten with its identifier
\* and emitted its span after the call, which took time
C15_Witness ==
    \E i \in DOMAIN calls :
        /\ calls[i].op = "Query"
        /\ calls[i].injMode = DBMPropagationModeFull
        /\ calls[i].delegated # calls[i].query
        /\ Len(SpansOf(calls[i])) = 1
        /\ SpansOf(calls[i])[1].spanID = calls[i].injID
        /\ calls[i].start < SpansOf(calls[i])[1].finish
        /\ Place(calls[i], "call") < Place(calls[i], "span.start")

-----------------------------------------------------------------------------
\* The spans created so far that are not finished
OpenSpans == {n \in DOMAIN spans : ~spans[n].finished}

\* C16: each call of the emitter creates no span or one, finished before
\* the emitter returns; so whenever no facade call is in progress no span
\* of the facade is open and there are at most as many finished spans as
\* completed calls.
C16_SpansFinished ==
    /\ \A i \in DOMAIN calls :
          /\ Len(SpansOf(calls[i])) \in {0, 1}
          /\ calls[i].sfrom = IF i = 1 THEN 0 ELSE calls[i - 1].sto
    /\ calls # <<>> => calls[Len(calls)].sto = Len(spans)
    /\ OpenSpans = {}
    /\ Len(spans) <= Len(calls)

\* After two calls, one suppressed and one not, there is one span and it is
\* finished
C16_Witness ==
    /\ Len(calls) = 2
    /\ Len(spans) = 1
    /\ spans[1].finished
    /\ \E i \in DOMAIN calls : SpansOf(calls[i]) = <<>>

-----------------------------------------------------------------------------
\* The clock when call i was entered: the clock when the call before it
\* returned
EntryTime(i) == IF i = 1 THEN 0 ELSE calls[i - 1].returned

\* C17: the start timestamp of every emitted span is the clock reading the
\* facade method took before it invoked the underlying call, not the time
\* the span was created at; so start <= invocation <= return <= finish.
C17_StartBeforeCall ==
    \A i \in DOMAIN calls :
        LET c == calls[i]
        IN  /\ Once(c, "time.Now") /\ Once(c, "call")
            /\ Place(c, "time.Now") < Place(c, "call")
            /\ c.start = EntryTime(i)
            /\ c.start <= c.returned
            /\ \A n \in DOMAIN SpansOf(c) :
                  /\ SpansOf(c)[n].start = c.start
                  /\ c.returned <= SpansOf(c)[n].finish

\* A span of a Commit whose underlying call took time: it starts at the
\* time the call was entered and finishes at the time it was created at
C17_Witness ==
    \E i \in DOMAIN calls :
        /\ calls[i].op = "Commit"
        /\ Len(SpansOf(calls[i])) = 1
        /\ SpansOf(calls[i])[1].start = EntryTime(i)
        /\ SpansOf(calls[i])[1].start < calls[i].returned
        /\ SpansOf(calls[i])[1].finish = calls[i].returned

-----------------------------------------------------------------------------
\* C18 as stated: the span of a QueryRow has kind Query, the caller's text
\* as resource and no error tag.
C18_QueryRowSpanAsStated ==
    \A i \in DOMAIN calls :
        LET c == calls[i]
        IN  c.op = "QueryRow" =>
              /\ c.traceErr = Nil
              /\ \A k \in DOMAIN SpansOf(c) :
                    /\ Kind_(SpansOf(c)[k]) = QueryTypeQuery
                    /\ Resource_(SpansOf(c)[k]) = c.query
                    /\ ~HasErrorTag(SpansOf(c)[k])

\* C18 amended: QueryRow hands no error to tryTrace; its span has kind
\* Query and no error tag whatever the row reports later and whatever the
\* classifier is, and its resource is the caller's text when that text is
\* not empty and the name of the kind when it is.
C18_QueryRowSpan ==
    \A i \in DOMAIN calls :
        LET c == calls[i]
        IN  c.op = "QueryRow" =>
              /\ c.traceErr = Nil
              /\ c.retErr = Nil
              /\ \A k \in DOMAIN SpansOf(c) :
                    /\ Kind_(SpansOf(c)[k]) = QueryTypeQuery
                    /\ Resource_(SpansOf(c)[k]) = IF c.query # "" THEN c.query ELSE QueryTypeQuery
                    /\ ~HasErrorTag(SpansOf(c)[k])

\* A QueryRow whose row reports an error the configuration would report
\* emitted a span without an error tag
C18_Witness ==
    \E i \in DOMAIN calls :
        /\ calls[i].op = "QueryRow"
        /\ calls[i].undErr # Nil
        /\ ErrorReported(TpOf(calls[i]), calls[i].undErr)
        /\ Len(SpansOf(calls[i])) = 1
        /\ ~HasErrorTag(SpansOf(calls[i])[1])

-----------------------------------------------------------------------------
\* The span of call c carries what c itself passed and observed
OwnValuesOnSpan(c, s) ==
    /\ s.start = c.start
    /\ Resource_(s) = Resource(c.qtype, c.query)
    /\ (c.injID # 0 => s.spanID = c.injID)
    /\ (HasErrorTag(s) <=> ErrorReported(TpOf(c), c.traceErr))
    /\ (HasErrorTag(s) => s.tags["error"] = c.traceErr)

\* Calls i and j were in progress at the same time
Overlap(i, j) ==
    /\ calls[i].start < calls[j].returned
    /\ calls[j].start < calls[i].returned

\* No step writes the traceParams of the pool or of a transaction facade
\* that exists
FacadesReadOnly ==
    /\ pool' = pool
    /\ \A t \in DOMAIN txs : t \in DOMAIN txs' /\ txs'[t] = txs[t]

\* C19: under every interleaving of calls made by several goroutines on the
\* pool facade and its transaction facades, no call writes the shared
\* configuration or metadata, and each call emits at most one span, whose
\* identifier, resource, start time and error tag are those of that call:
\* no value of a call in progress appears on the span of another.
C19_NoCrossTalk ==
    /\ [][FacadesReadOnly]_vars
    /\ [](\A i \in DOMAIN calls :
            /\ Len(SpansOf(calls[i])) <= 1
            /\ \A n \in DOMAIN SpansOf(calls[i]) :
                  /\ OwnValuesOnSpan(calls[i], SpansOf(calls[i])[n])
                  /\ \A g \in Goroutines :
                        (inflight[g].pc = "called" /\ inflight[g].spanID # 0)
                            => SpansOf(calls[i])[n].spanID # inflight[g].spanID
                  /\ \A j \in DOMAIN calls \ {i} :
                        \A m \in DOMAIN SpansOf(calls[j]) :
                            SpansOf(calls[j])[m].spanID # SpansOf(calls[i])[n].spanID)

\* Two Exec calls with different texts and different errors were in
\* progress at the same time and each emitted its span
C19_Witness ==
    \E i, j \in DOMAIN calls :
        /\ i # j
        /\ calls[i].op = "Exec" /\ calls[j].op = "Exec"
        /\ Overlap(i, j)
        /\ calls[i].start < calls[j].start /\ calls[j].returned < calls[i].returned
        /\ calls[i].query # calls[j].query
        /\ calls[i].traceErr # calls[j].traceErr
        /\ Len(SpansOf(calls[i])) = 1 /\ Len(SpansOf(calls[j])) = 1
        /\ OwnValuesOnSpan(calls[i], SpansOf(calls[i])[1])
        /\ OwnValuesOnSpan(calls[j], SpansOf(calls[j])[1])

-----------------------------------------------------------------------------
\* The mode the method op gives to the injector under cfg
ModeGiven(op, cfg) == IF op = "Prepare" THEN PrepareMode(cfg) ELSE cfg.dbmPropagationMode

\* The traceParams tp with the suppress set ig and the child-spans-only
\* flag b in place of its own
SuppressionVariant(tp, ig, b) ==
    [tp EXCEPT !.cfg.ignoreQueryTypes = ig, !.cfg.childSpansOnly = b]

\* C20: suppression does not influence the delegated call.  What a call
\* delegated and returned is what the same call, with the same arguments and
\* the same generated identifier, delegates and returns under every suppress
\* set and either value of the child-spans-only flag; a suppressed
\* Prepare, Exec, Query or QueryRow delegates the rewritten text all the
\* same, and a span identifier that text embeds is that of no emitted span.
C20_SuppressionNoInfluence ==
    \A i \in DOMAIN calls :
        LET c == calls[i]
        IN  /\ c.op \in SQLOps =>
                  \A ig \in IgnoreSets, b \in BOOLEAN :
                      LET tp2 == SuppressionVariant(TpOf(c), ig, b)
                      IN  /\ c.injMode = ModeGiven(c.op, tp2.cfg)
                          /\ c.delegated =
                                injectComments(tp2, c.ctx, c.query, c.injMode, c.injID).cquery
            /\ c.retErr = IF c.op = "QueryRow" THEN Nil ELSE c.undErr
            /\ c.retTx # 0 <=> (c.op = "BeginTx" /\ c.undErr = Nil)
            /\ (c.op \in SQLOps /\ SpansOf(c) = <<>>) =>
                  /\ c.injMode # DBMPropagationModeDisabled => c.delegated # c.query
                  /\ c.injMode = DBMPropagationModeFull =>
                        /\ EmbeddedSpanIDs(c.delegated, c.query, TpOf(c).cfg.serviceName)
                              = {c.injID}
                        /\ \A n \in DOMAIN spans : spans[n].spanID # c.injID

\* A suppressed full-mode Exec delegated rewritten text whose embedded
\* identifier is that of none of the spans emitted
C20_Witness ==
    \E i \in DOMAIN calls :
        /\ calls[i].op = "Exec"
        /\ ~PolicyLetsThrough(calls[i])
        /\ SpansOf(calls[i]) = <<>>
        /\ calls[i].delegated # calls[i].query
        /\ EmbeddedSpanIDs(calls[i].delegated, calls[i].query,
                           TpOf(calls[i]).cfg.serviceName) = {calls[i].injID}
        /\ spans # <<>>
        /\ \A n \in DOMAIN spans : spans[n].spanID # calls[i].injID

====
